---- MODULE Spec2Model ----
(***************************************************************************)
(* manopla-go: generator of striking combinations.  The model follows the  *)
(* flag-driven program (package main with globalOptions): the catalog      *)
(* filter applyGlobalOptions, the rule engine nextMove / applyRules, the   *)
(* generation loop of main with its playback loop, and the stdin listener  *)
(* goroutine that closes the channel finish.                               *)
(*                                                                         *)
(* Probabilities are kept in tenths (prob 0.3 is 3); a draw of            *)
(* rand.Float64 is a value of Draws, tenths in [0, 10).                    *)
(***************************************************************************)
EXTENDS Integers, Sequences, FiniteSets, TLC

\* ------------------------------------------------------------------ bounds
\* longest catalog handed to applyGlobalOptions on its own
MaxCatalogLen == 4
\* largest -n (moves per round) and -d (distinct moves) that are explored
MaxSeqSize == 4
MaxDistinct == 3
\* rounds of the generation loop that are explored
MaxRounds == 2
StreamLen == 2

\* ------------------------------------------------------------------ moves
Move(n, f, b, l, p) == [name |-> n, front |-> f, back |-> b, leg |-> l, prob |-> p]

jab      == Move("jab", TRUE, FALSE, FALSE, 0)
direto   == Move("direto", FALSE, TRUE, FALSE, 0)
cruza    == Move("cruza", TRUE, TRUE, FALSE, 3)
chuta    == Move("chuta", TRUE, TRUE, TRUE, 0)
tip      == Move("tip", TRUE, TRUE, TRUE, 5)
upper    == Move("upper", TRUE, TRUE, FALSE, 3)
cotovelo == Move("cotovelo", TRUE, TRUE, FALSE, 5)
joelho   == Move("joelho", TRUE, TRUE, TRUE, 5)

\* the catalog literal of main
BuiltinMoves == <<jab, direto, cruza, chuta, tip, upper, cotovelo, joelho>>

\* the two-move catalog of the "jab direto" scenario
JabDireto == <<jab, direto>>

\* the first five moves of the catalog: both one-sided moves, an arm move
\* of either side with a positive prob, a leg move with and without one
FirstFive == <<jab, direto, cruza, chuta, tip>>

\* values of rand.Float64 in tenths: one below every positive prob and one
\* that no prob of the catalog exceeds.  Every move has its own draw, so
\* each move with a positive prob passes or fails independently of the rest.
Draws == {0, 5}

\* ------------------------------------------------------------- the options
\* -t: only whether the interval is positive matters (0 = timer ready at once)
Intervals == {0, 1}

Options ==
    [maxDistinct : -1 .. MaxDistinct,
     seqSize     : 1 .. MaxSeqSize,
     onlyArm     : BOOLEAN,
     onlyLeg     : BOOLEAN,
     interval    : Intervals]

\* ------------------------------------------------------ applyGlobalOptions
\* keepMove with the short-sequence test off by one (seqSize < 3)
keepMoveShortOffByOne(m, o) ==
    /\ ~(o.onlyLeg /\ ~m.leg)
    /\ ~(o.onlyArm /\ m.leg)
    /\ ~(~o.onlyLeg /\ m.leg /\ (o.seqSize > 1 /\ o.seqSize < 3))

\* keepMove with the short-sequence test not guarded by onlyLeg
keepMoveShortUnguarded(m, o) ==
    /\ ~(o.onlyLeg /\ ~m.leg)
    /\ ~(o.onlyArm /\ m.leg)
    /\ ~(m.leg /\ (o.seqSize > 1 /\ o.seqSize < 4))

\* the loop body of applyGlobalOptions: TRUE iff m is appended to result
keepMove(m, o) ==
    /\ ~(o.onlyLeg /\ ~m.leg)
    /\ ~(o.onlyArm /\ m.leg)
    /\ ~(~o.onlyLeg /\ m.leg /\ (o.seqSize > 1 /\ o.seqSize < 4))

\* result after the range loop, before the truncation
filterPass(ms, o) == SelectSeq(ms, LAMBDA m : keepMove(m, o))

\* the condition of the truncating if
mustTruncate(result, o) == o.maxDistinct # 0 /\ Len(result) > o.maxDistinct

\* applyGlobalOptionsPanics with an empty result rejected at startup
applyGlobalOptionsRejectsEmpty(ms, o) ==
    \/ mustTruncate(filterPass(ms, o), o) /\ o.maxDistinct < 0
    \/ filterPass(ms, o) = <<>>

\* result[:maxDistinct] with a negative bound is a run-time panic
applyGlobalOptionsPanics(ms, o) ==
    mustTruncate(filterPass(ms, o), o) /\ o.maxDistinct < 0

\* applyGlobalOptions keeping the last maxDistinct moves instead of the first
applyGlobalOptionsKeepsTail(ms, o) ==
    LET result == filterPass(ms, o)
    IN  IF mustTruncate(result, o)
        THEN SubSeq(result, Len(result) - o.maxDistinct + 1, Len(result))
        ELSE result

applyGlobalOptions(ms, o) ==
    LET result == filterPass(ms, o)
    IN  IF mustTruncate(result, o)
        THEN SubSeq(result, 1, o.maxDistinct)
        ELSE result

\* ------------------------------------------------------------ the rules
\* probabilityRule with a strict comparison
probabilityRuleStrict(m, p) == m.prob < p

probabilityRule(m, p) == m.prob <= p
frontRule(m) == m.front
backRule(m) == m.back
mustBeLegRule(m) == m.leg
mustNotBeLegRule(m) == ~m.leg

\* a rule of the list built by nextMove, applied to m; p is the value
\* rand.Float64 returns when the probability rule is evaluated for m
ruleHolds(r, m, p) ==
    CASE r = "probabilityRule"  -> probabilityRule(m, p)
      [] r = "frontRule"        -> frontRule(m)
      [] r = "backRule"         -> backRule(m)
      [] r = "mustBeLegRule"    -> mustBeLegRule(m)
      [] r = "mustNotBeLegRule" -> mustNotBeLegRule(m)

hasLeg(ms) == \E i \in 1 .. Len(ms) : ms[i].leg
hasArm(ms) == \E i \in 1 .. Len(ms) : ~ms[i].leg

\* sideRule that ignores the side flag
sideRuleAlwaysFront(ro) == "frontRule"

\* the side rule nextMove appends after the probability rule
sideRule(ro) == IF ro.isFront THEN "frontRule" ELSE "backRule"

\* limbRules that takes the last position to be len(previousMoves) == seqSize
limbRulesLastOffByOne(ms, ro) ==
    IF hasLeg(ms) /\ hasArm(ms)
    THEN IF ro.seqSize >= 4 /\ Len(ro.previousMoves) = ro.seqSize
         THEN <<"mustBeLegRule">>
         ELSE IF ro.seqSize # 1
              THEN <<"mustNotBeLegRule">>
              ELSE <<>>
    ELSE <<>>

\* limbRules without the exemption of one-move sequences
limbRulesNoSingleExemption(ms, ro) ==
    IF hasLeg(ms) /\ hasArm(ms)
    THEN IF ro.seqSize >= 4 /\ Len(ro.previousMoves) = ro.seqSize - 1
         THEN <<"mustBeLegRule">>
         ELSE <<"mustNotBeLegRule">>
    ELSE <<>>

\* limbRules that asks for a closing leg move from seqSize 3 on
limbRulesLegFromThree(ms, ro) ==
    IF hasLeg(ms) /\ hasArm(ms)
    THEN IF ro.seqSize >= 3 /\ Len(ro.previousMoves) = ro.seqSize - 1
         THEN <<"mustBeLegRule">>
         ELSE IF ro.seqSize # 1
              THEN <<"mustNotBeLegRule">>
              ELSE <<>>
    ELSE <<>>

\* limbRules that looks for leg moves only, not for a mixed working set
limbRulesHasLegOnly(ms, ro) ==
    IF hasLeg(ms)
    THEN IF ro.seqSize >= 4 /\ Len(ro.previousMoves) = ro.seqSize - 1
         THEN <<"mustBeLegRule">>
         ELSE IF ro.seqSize # 1
              THEN <<"mustNotBeLegRule">>
              ELSE <<>>
    ELSE <<>>

\* the limb-position rules nextMove appends (none, or one)
limbRules(ms, ro) ==
    IF hasLeg(ms) /\ hasArm(ms)
    THEN IF ro.seqSize >= 4 /\ Len(ro.previousMoves) = ro.seqSize - 1
         THEN <<"mustBeLegRule">>
         ELSE IF ro.seqSize # 1
              THEN <<"mustNotBeLegRule">>
              ELSE <<>>
    ELSE <<>>

\* the list rules of nextMove when it calls applyRules
buildRules(ms, ro) == <<"probabilityRule", sideRule(ro)>> \o limbRules(ms, ro)

\* m passes every rule (the inner loop of applyRules)
passes(m, rs, p) == \A k \in 1 .. Len(rs) : ruleHolds(rs[k], m, p)

\* applyRules: the moves that pass, in order; draws[i] is the draw for ms[i]
applyRules(ms, rs, draws) ==
    LET F[i \in 0 .. Len(ms)] ==
            IF i = 0 THEN <<>>
            ELSE IF passes(ms[i], rs, draws[i])
                 THEN Append(F[i - 1], ms[i])
                 ELSE F[i - 1]
    IN  F[Len(ms)]

\* ---------------------------------------------------------------- state
VARIABLES
    catalog,        \* the catalog literal handed to applyGlobalOptions
    o,              \* globalOptions, parsed from the flags
    possibleMoves,  \* main's possibleMoves
    pc,             \* main's position
    panic,          \* what main panicked with ("" = nothing)
    isFront,        \* main's side flag
    moves,          \* the moves of the round being built / played
    s,              \* the line being built: marker and names
    stdout,         \* the number of lines printed so far (a line is s
                    \* as it stands when it is printed)
    selections,     \* moves selected since the start of the run
    callOpts,       \* the rulesOptions of the last nextMove call
    rules,          \* the rule list of the last nextMove call
    played,         \* clips of this round whose playAudio returned nil
    speaker,        \* the clip the speaker is playing ("" = silent)
    err,            \* what the last playAudio call returned
    finish,         \* TRUE iff the channel finish is closed
    lpc,            \* the stdin listener goroutine's position
    logged,         \* TRUE iff the listener logged a read error
    closedIn,       \* where main was when finish was closed: in a round
                    \* ("round"), between rounds ("boundary"), "" = open
    round,          \* rounds started so far
    level,          \* the -l flag of the level-based variant (0 = unset)
    seed,           \* the values the generator seeded by rand.Seed(2)
                    \* yields, in order (the stream repeats)
    cursor          \* the position in seed of the next value drawn

vars == <<catalog, o, possibleMoves, pc, panic, isFront, moves, s, stdout,
          selections, callOpts, rules, played, speaker, err, finish, lpc, logged,
          closedIn, round, level, seed, cursor>>

cfgVars == <<catalog, o, level, seed>>
roundVars == <<isFront, moves, s, selections, callOpts, rules>>
playVars == <<played, speaker, err>>
listenerVars == <<finish, lpc, logged, closedIn>>

\* the catalogs main is run with
Catalogs == {FirstFive, JabDireto}

\* everything but main's position, side flag, moves and working set
InitRest ==
    /\ panic = ""
    /\ s = [marker |-> "", names |-> <<>>]
    /\ stdout = 0
    /\ selections = 0
    /\ callOpts = [previousMoves |-> <<>>, seqSize |-> o.seqSize, isFront |-> TRUE]
    /\ rules = <<>>
    /\ played = 0
    /\ speaker = ""
    /\ err = "nil"
    /\ finish = FALSE
    /\ lpc = "none"
    /\ logged = FALSE
    /\ closedIn = ""
    /\ round = 0

\* the generator's values are left open: NextMove takes any draws
Unseeded == seed = <<>> /\ cursor = 0

InitRun ==
    /\ level = 0
    /\ Unseeded
    /\ possibleMoves = catalog
    /\ pc = "filter"
    /\ isFront = TRUE
    /\ moves = <<>>
    /\ InitRest

Init ==
    /\ catalog \in Catalogs
    /\ o \in Options
    /\ InitRun

\* ------------------------------------------------------- main: startup
\* possibleMoves = applyGlobalOptions(possibleMoves, o)
ApplyGlobalOptions ==
    /\ pc = "filter"
    /\ IF applyGlobalOptionsPanics(possibleMoves, o)
       THEN /\ pc' = "panic"
            /\ panic' = "slice bounds out of range"
            /\ UNCHANGED possibleMoves
       ELSE /\ possibleMoves' = applyGlobalOptions(possibleMoves, o)
            /\ pc' = "init"
            /\ UNCHANGED panic
    /\ UNCHANGED <<cfgVars, cursor, roundVars, stdout, playVars, listenerVars, round>>

\* speaker.Init succeeds; isFront := true; the listener goroutine starts
SpeakerInit ==
    /\ pc = "init"
    /\ pc' = "loop"
    /\ isFront' = TRUE
    /\ lpc' = "read"
    /\ UNCHANGED <<cfgVars, cursor, possibleMoves, panic, moves, s, selections,
                   callOpts, rules, stdout, playVars, finish, logged,
                   closedIn, round>>

\* speaker.Init fails: panic(err)
SpeakerInitFails ==
    /\ pc = "init"
    /\ pc' = "panic"
    /\ panic' = "speaker"
    /\ UNCHANGED <<cfgVars, cursor, possibleMoves, roundVars, stdout, playVars,
                   listenerVars, round>>

\* ------------------------------------------------- the stdin listener
Running == pc \notin {"done", "panic"}

\* afterRead with a return after the error is logged
afterReadReturnsOnError(e) == IF e # "nil" THEN "exit" ELSE "close"

\* the listener's next position once os.Stdin.Read has returned e: the
\* error, if any, is only logged, and close(finish) follows in either case
afterRead(e) == "close"

\* ListenerRead drawing a value from the shared generator
ListenerReadDraws ==
    /\ Running
    /\ lpc = "read"
    /\ \E e \in {"nil", "error"} :
         /\ logged' = (e # "nil")
         /\ lpc' = afterRead(e)
    /\ cursor' = (cursor + 1) % StreamLen
    /\ UNCHANGED <<cfgVars, possibleMoves, pc, panic, roundVars, stdout,
                   playVars, finish, closedIn, round>>

\* os.Stdin.Read returns, with or without an error; an error is logged
ListenerRead ==
    /\ Running
    /\ lpc = "read"
    /\ \E e \in {"nil", "error"} :
         /\ logged' = (e # "nil")
         /\ lpc' = afterRead(e)
    /\ UNCHANGED <<cfgVars, cursor, possibleMoves, pc, panic, roundVars, stdout,
                   playVars, finish, closedIn, round>>

\* main's positions inside a round: selection, printing, playback
InRound == {"select", "play", "playing"}

\* close(finish)
ListenerClose ==
    /\ Running
    /\ lpc = "close"
    /\ finish' = TRUE
    /\ closedIn' = IF pc \in InRound THEN "round" ELSE "boundary"
    /\ lpc' = "exit"
    /\ UNCHANGED <<cfgVars, cursor, possibleMoves, pc, panic, roundVars, stdout,
                   playVars, logged, round>>

\* ------------------------------------------------ main: one round
\* LoopTop with the side flag set back to the lead side every round
LoopTopResetsSide ==
    /\ pc = "loop"
    /\ moves' = <<>>
    /\ s' = [marker |-> "F:", names |-> <<>>]
    /\ isFront' = TRUE
    /\ played' = 0
    /\ round' = round + 1
    /\ pc' = "select"
    /\ UNCHANGED <<cfgVars, cursor, possibleMoves, panic, selections, callOpts, rules,
                   stdout, speaker, err, listenerVars>>

\* top of the for loop: moves := []move{}, s := "F:" or "T:"
LoopTop ==
    /\ pc = "loop"
    /\ moves' = <<>>
    /\ s' = [marker |-> IF isFront THEN "F:" ELSE "T:", names |-> <<>>]
    /\ played' = 0
    /\ round' = round + 1
    /\ pc' = "select"
    /\ UNCHANGED <<cfgVars, cursor, possibleMoves, panic, isFront, selections,
                   callOpts, rules, stdout, speaker, err, listenerVars>>

\* the rulesOptions main hands to nextMove
rulesOptions == [previousMoves |-> moves, seqSize |-> o.seqSize, isFront |-> isFront]

\* the moves nextMove can return for the draws of the probability rule
nextMoveAllowed(ms, ro, draws) == applyRules(ms, buildRules(ms, ro), draws)

\* one iteration of the selection loop: nextMove, append, flip the side.
\* rand.Intn(0) panics when no move is allowed.
NextMove ==
    /\ pc = "select"
    /\ Len(moves) < o.seqSize
    /\ callOpts' = rulesOptions
    /\ rules' = buildRules(possibleMoves, rulesOptions)
    /\ \E draws \in [1 .. Len(possibleMoves) -> Draws] :
         LET allowedMoves == nextMoveAllowed(possibleMoves, rulesOptions, draws)
         IN  IF allowedMoves = <<>>
             THEN /\ pc' = "panic"
                  /\ panic' = "rand.Intn"
                  /\ UNCHANGED <<moves, isFront, s, selections>>
             ELSE \E i \in 1 .. Len(allowedMoves) :
                    /\ moves' = Append(moves, allowedMoves[i])
                    /\ isFront' = ~isFront
                    /\ selections' = selections + 1
                    /\ s' = [s EXCEPT !.names = Append(@, allowedMoves[i].name)]
                    /\ UNCHANGED <<pc, panic>>
    /\ UNCHANGED <<cfgVars, cursor, possibleMoves, stdout, playVars, listenerVars, round>>

\* fmt.Println(s), once the selection loop is over
PrintLine ==
    /\ pc = "select"
    /\ Len(moves) >= o.seqSize
    /\ stdout' = stdout + 1
    /\ pc' = "play"
    /\ UNCHANGED <<cfgVars, cursor, possibleMoves, panic, roundVars, playVars,
                   listenerVars, round>>

\* main's next position once playAudio has returned e:
\* if err != nil { panic(err) }, else the next iteration of the range
afterPlayAudioIgnoresErr(e) == "play"

afterPlayAudio(e) == IF e # "nil" THEN "panic" ELSE "play"

\* playAudio(m.name): fs.Open or mp3.Decode fails, the error is returned
\* before anything is played
PlayAudioFails ==
    /\ pc = "play"
    /\ played < Len(moves)
    /\ err' = "error"
    /\ pc' = afterPlayAudio("error")
    /\ panic' = IF pc' = "panic" THEN "playAudio" ELSE panic
    /\ played' = IF pc' = "panic" THEN played ELSE played + 1
    /\ UNCHANGED <<cfgVars, cursor, possibleMoves, roundVars, stdout, speaker,
                   listenerVars, round>>

\* playAudio(m.name): speaker.Play, then wait on done
PlayAudioStart ==
    /\ pc = "play"
    /\ played < Len(moves)
    /\ speaker' = moves[played + 1].name
    /\ pc' = "playing"
    /\ UNCHANGED <<cfgVars, cursor, possibleMoves, panic, roundVars, stdout, played,
                   err, listenerVars, round>>

\* the clip's completion callback sends on done; playAudio returns nil
PlayAudioDone ==
    /\ pc = "playing"
    /\ speaker' = ""
    /\ err' = "nil"
    /\ pc' = afterPlayAudio("nil")
    /\ panic' = IF pc' = "panic" THEN "playAudio" ELSE panic
    /\ played' = IF pc' = "panic" THEN played ELSE played + 1
    /\ UNCHANGED <<cfgVars, cursor, possibleMoves, roundVars, stdout, listenerVars,
                   round>>

\* RangeEnd with the range left one clip early
RangeEndOneEarly ==
    /\ pc = "play"
    /\ played >= Len(moves) - 1
    /\ pc' = "delay"
    /\ UNCHANGED <<cfgVars, cursor, possibleMoves, panic, roundVars, stdout, playVars,
                   listenerVars, round>>

\* the range over moves is exhausted: main reaches the select
RangeEnd ==
    /\ pc = "play"
    /\ played >= Len(moves)
    /\ pc' = "delay"
    /\ UNCHANGED <<cfgVars, cursor, possibleMoves, panic, roundVars, stdout, playVars,
                   listenerVars, round>>

\* ------------------------------------ main: select on finish / time.After
\* The select is evaluated at pc = "delay"; with no case ready main blocks
\* (pc = "blocked") until the listener closes finish or the timer fires.
\* A timer of a positive interval is not ready when the select is first
\* evaluated; a timer of interval 0 is.
\* timerReady with the timer of any interval ready when the select is evaluated
timerReadyAtOnce(p, iv, fin) == p = "delay" \/ (p = "blocked" /\ ~fin)

\* finishReady with finish looked at wherever main is
finishReadyAnywhere(p, fin) == fin

timerReady(p, iv, fin) == (p = "delay" /\ iv = 0) \/ (p = "blocked" /\ ~fin)
finishReady(p, fin) == p \in {"delay", "blocked"} /\ fin

\* case <-finish: return
TakeFinish ==
    /\ finishReady(pc, finish)
    /\ pc' = "done"
    /\ UNCHANGED <<cfgVars, cursor, possibleMoves, panic, roundVars, stdout, playVars,
                   listenerVars, round>>

\* case <-time.After(o.interval): next iteration
TakeTimer ==
    /\ timerReady(pc, o.interval, finish)
    /\ round < MaxRounds
    /\ pc' = "loop"
    /\ UNCHANGED <<cfgVars, cursor, possibleMoves, panic, roundVars, stdout, playVars,
                   listenerVars, round>>

\* no case is ready: main blocks in the select
Block ==
    /\ pc = "delay"
    /\ ~finish
    /\ o.interval > 0
    /\ pc' = "blocked"
    /\ UNCHANGED <<cfgVars, cursor, possibleMoves, panic, roundVars, stdout, playVars,
                   listenerVars, round>>

Next ==
    \/ ApplyGlobalOptions
    \/ SpeakerInit
    \/ SpeakerInitFails
    \/ ListenerRead
    \/ ListenerClose
    \/ LoopTop
    \/ NextMove
    \/ PrintLine
    \/ PlayAudioFails
    \/ PlayAudioStart
    \/ PlayAudioDone
    \/ RangeEnd
    \/ TakeFinish
    \/ TakeTimer
    \/ Block

Spec == Init /\ [][Next]_vars

\* The main goroutine is scheduled whenever it can take a step, a clip that
\* was started completes, and the interval timer fires.  Nothing makes the
\* stdin read return.
MainStep ==
    \/ ApplyGlobalOptions
    \/ SpeakerInit
    \/ SpeakerInitFails
    \/ LoopTop
    \/ NextMove
    \/ PrintLine
    \/ PlayAudioFails
    \/ PlayAudioStart
    \/ RangeEnd
    \/ TakeFinish
    \/ TakeTimer
    \/ Block

FairSpec == Spec /\ WF_vars(MainStep) /\ WF_vars(PlayAudioDone)

\* ------------------------------------ applyGlobalOptions on its own
\* the moves catalogs are built from: lead / rear / both sides, arm / leg
MoveKinds == {jab, direto, chuta, tip}

RECURSIVE SeqsUpTo(_, _)
SeqsUpTo(S, n) ==
    IF n = 0 THEN {<<>>}
    ELSE LET shorter == SeqsUpTo(S, n - 1)
         IN  shorter \cup {Append(q, x) : q \in shorter, x \in S}

FilterInit ==
    /\ catalog \in SeqsUpTo(MoveKinds, MaxCatalogLen)
    /\ o \in Options
    /\ InitRun

FilterSpec == FilterInit /\ [][ApplyGlobalOptions]_vars

\* ------------------------------------------------ nextMove on its own
\* One call of nextMove at any position of a sequence and on either side:
\* over the working set applyGlobalOptions makes of the catalog literal,
\* for every -d up to one past its length, and over any working set of
\* MoveKinds.  nextMove reads only the length of previousMoves.
SelectCatalogs == {BuiltinMoves} \cup SeqsUpTo(MoveKinds, MaxCatalogLen)

SelectOptions(c) ==
    IF c = BuiltinMoves
    THEN [maxDistinct : 0 .. Len(BuiltinMoves) + 1,
          seqSize     : 1 .. MaxSeqSize,
          onlyArm     : BOOLEAN,
          onlyLeg     : BOOLEAN,
          interval    : {1}]
    ELSE [maxDistinct : {0},
          seqSize     : 1 .. MaxSeqSize,
          onlyArm     : {FALSE},
          onlyLeg     : {FALSE},
          interval    : {1}]

SelectInit ==
    /\ catalog \in SelectCatalogs
    /\ o \in SelectOptions(catalog)
    /\ possibleMoves = IF catalog = BuiltinMoves
                       THEN applyGlobalOptions(catalog, o)
                       ELSE catalog
    /\ level = 0
    /\ Unseeded
    /\ pc = "select"
    /\ isFront \in BOOLEAN
    /\ \E n \in 0 .. o.seqSize - 1 : moves = [k \in 1 .. n |-> jab]
    /\ InitRest

\* the call: no rule list has been built yet
SelectCall == rules = <<>> /\ NextMove

SelectSpec == SelectInit /\ [][SelectCall]_vars

\* --------------------------------------- the run with a seeded generator
\* rand.Seed(2) fixes the values math/rand yields.  A stream is StreamLen
\* raw values, read round and round; Float64 and Intn each take the next.
RawValues == {0, 1, 2}
Streams == [1 .. StreamLen -> RawValues]

\* the raw value at position c of the stream sd
rawAt(sd, c) == sd[(c % Len(sd)) + 1]

\* rand.Float64() read at position c, in tenths
float64At(sd, c) == IF rawAt(sd, c) = 0 THEN 0 ELSE 5

\* rand.Intn(n) read at position c
intnAt(sd, c, n) == rawAt(sd, c) % n

\* the draws of one applyRules call that starts reading at c: the
\* probability rule is the first rule, so every move takes one value
seededDraws(ms, sd, c) == [i \in 1 .. Len(ms) |-> float64At(sd, c + i - 1)]

\* the position after a nextMove call over ms that started at c
cursorAfter(ms, sd, c) == (c + Len(ms) + 1) % Len(sd)

\* nextMove with the generator's values
NextMoveSeeded ==
    /\ pc = "select"
    /\ Len(moves) < o.seqSize
    /\ callOpts' = rulesOptions
    /\ rules' = buildRules(possibleMoves, rulesOptions)
    /\ LET allowedMoves == nextMoveAllowed(possibleMoves, rulesOptions,
                                seededDraws(possibleMoves, seed, cursor))
           at == cursor + Len(possibleMoves)
       IN  IF allowedMoves = <<>>
           THEN /\ pc' = "panic"
                /\ panic' = "rand.Intn"
                /\ cursor' = at % StreamLen
                /\ UNCHANGED <<moves, isFront, s, selections>>
           ELSE LET m == allowedMoves[intnAt(seed, at, Len(allowedMoves)) + 1]
                IN  /\ moves' = Append(moves, m)
                    /\ isFront' = ~isFront
                    /\ selections' = selections + 1
                    /\ s' = [s EXCEPT !.names = Append(@, m.name)]
                    /\ cursor' = cursorAfter(possibleMoves, seed, cursor)
                    /\ UNCHANGED <<pc, panic>>
    /\ UNCHANGED <<cfgVars, possibleMoves, stdout, playVars, listenerVars, round>>

DetOptions ==
    [maxDistinct : {0},
     seqSize     : 1 .. MaxSeqSize,
     onlyArm     : {FALSE},
     onlyLeg     : {FALSE},
     interval    : Intervals]

DetInit ==
    /\ catalog \in Catalogs
    /\ o \in DetOptions
    /\ level = 0
    /\ seed \in Streams
    /\ cursor = 0
    /\ possibleMoves = catalog
    /\ pc = "filter"
    /\ isFront = TRUE
    /\ moves = <<>>
    /\ InitRest

DetNext ==
    \/ ApplyGlobalOptions
    \/ SpeakerInit
    \/ SpeakerInitFails
    \/ ListenerRead
    \/ ListenerClose
    \/ LoopTop
    \/ NextMoveSeeded
    \/ PrintLine
    \/ PlayAudioFails
    \/ PlayAudioStart
    \/ PlayAudioDone
    \/ RangeEnd
    \/ TakeFinish
    \/ TakeTimer
    \/ Block

DetSpec == DetInit /\ [][DetNext]_vars

\* ------------------------------------- the level-based variant's start
\* manopla.go cuts its catalog by the flag -l instead of filtering it.
MaxLevel == 8

\* the catalog literal of manopla.go
LevelMoves ==
    << Move("jab", TRUE, FALSE, FALSE, 0),
       Move("direto", FALSE, TRUE, FALSE, 0),
       Move("cruza", TRUE, TRUE, FALSE, 5),
       Move("chuta", TRUE, TRUE, TRUE, 0),
       Move("tip", TRUE, TRUE, TRUE, 5),
       Move("upper", TRUE, TRUE, FALSE, 5),
       Move("cotovelo", TRUE, TRUE, FALSE, 5),
       Move("joelho", TRUE, TRUE, TRUE, 0) >>

Levels == -2 .. MaxLevel

LevelCatalogs == {LevelMoves}

\* the flags of manopla.go: -n is the sequence size, -t the interval
LevelOptions ==
    [maxDistinct : {0},
     seqSize     : 1 .. MaxSeqSize,
     onlyArm     : {FALSE},
     onlyLeg     : {FALSE},
     interval    : Intervals]

\* if level+1 >= len(possibleMoves) { level = len(possibleMoves) - 2 }
levelClamp(ms, l) == IF l + 1 >= Len(ms) THEN Len(ms) - 2 ELSE l

\* possibleMoves[:level+1] with a negative bound
levelPanics(ms, l) == l # 0 /\ levelClamp(ms, l) + 1 < 0

levelTruncate(ms, l) ==
    IF l # 0 THEN SubSeq(ms, 1, levelClamp(ms, l) + 1) ELSE ms

LevelInit ==
    /\ catalog \in LevelCatalogs
    /\ o \in LevelOptions
    /\ level \in Levels
    /\ Unseeded
    /\ possibleMoves = catalog
    /\ pc = "level"
    /\ isFront = TRUE
    /\ moves = <<>>
    /\ InitRest

\* if level != 0 { ...; possibleMoves = possibleMoves[:level+1] }
LevelTruncate ==
    /\ pc = "level"
    /\ level' = IF level # 0 THEN levelClamp(possibleMoves, level) ELSE level
    /\ IF levelPanics(possibleMoves, level)
       THEN /\ pc' = "panic"
            /\ panic' = "slice bounds out of range"
            /\ UNCHANGED possibleMoves
       ELSE /\ possibleMoves' = levelTruncate(possibleMoves, level)
            /\ pc' = "loop"
            /\ UNCHANGED panic
    /\ UNCHANGED <<catalog, o, seed, cursor, roundVars, stdout, playVars,
                   listenerVars, round>>

LevelSpec == LevelInit /\ [][LevelTruncate]_vars

\* =================================================================
\* Properties of applyGlobalOptions (checked under FilterSpec)
\* =================================================================
legMoves(ms) == SelectSeq(ms, LAMBDA m : m.leg)

\* the catalog positions whose move survives the filtering pass
keptIdx == {i \in 1 .. Len(catalog) : keepMove(catalog[i], o)}

\* the k-th smallest element of the set of positions I
RECURSIVE NthOf(_, _)
NthOf(I, k) ==
    LET least == CHOOSE i \in I : \A j \in I : i <= j
    IN  IF k = 1 THEN least ELSE NthOf(I \ {least}, k - 1)

\* q is made of the first Len(q) surviving catalog moves, in catalog order
FirstKept(q) ==
    /\ Len(q) <= Cardinality(keptIdx)
    /\ \A k \in 1 .. Len(q) : q[k] = catalog[NthOf(keptIdx, k)]

\* q is taken from the catalog in catalog order
InCatalogOrder(q) ==
    \E f \in [1 .. Len(q) -> 1 .. Len(catalog)] :
        /\ \A k \in 1 .. Len(q) : q[k] = catalog[f[k]]
        /\ \A k \in 1 .. Len(q) - 1 : f[k] < f[k + 1]

\* C1: with onlyLeg = false, onlyArm = false and seqSize 2 or 3, the working
\* set applyGlobalOptions returns contains no leg move, for every catalog
\* and every maxDistinct.
C1_NoLegInShortSequences ==
    (pc = "init" /\ ~o.onlyLeg /\ ~o.onlyArm /\ o.seqSize > 1 /\ o.seqSize < 4)
        => ~hasLeg(possibleMoves)

C1_Witness ==
    /\ pc = "init"
    /\ ~o.onlyLeg /\ ~o.onlyArm /\ o.seqSize = 3
    /\ hasLeg(catalog)
    /\ possibleMoves # <<>>

\* C2 as stated: maxDistinct = 0 never truncates, and maxDistinct = N > 0
\* with a catalog of more than N moves yields exactly N moves in catalog
\* order, for every onlyArm, onlyLeg and seqSize.
C2_AsStated ==
    pc = "init" =>
        /\ o.maxDistinct = 0 => Len(possibleMoves) = Cardinality(keptIdx)
        /\ (o.maxDistinct > 0 /\ Len(catalog) > o.maxDistinct) =>
               /\ Len(possibleMoves) = o.maxDistinct
               /\ InCatalogOrder(possibleMoves)

\* C2 amended: maxDistinct = 0 never truncates; with maxDistinct = N > 0 the
\* result is the first N moves that survive the filtering pass, in catalog
\* order, when more than N survive, and all the surviving moves otherwise.
C2_TruncatesFilteredPass ==
    pc = "init" =>
        /\ FirstKept(possibleMoves)
        /\ InCatalogOrder(possibleMoves)
        /\ o.maxDistinct = 0 => Len(possibleMoves) = Cardinality(keptIdx)
        /\ (o.maxDistinct > 0 /\ Cardinality(keptIdx) > o.maxDistinct) =>
               Len(possibleMoves) = o.maxDistinct
        /\ (o.maxDistinct > 0 /\ Cardinality(keptIdx) <= o.maxDistinct) =>
               Len(possibleMoves) = Cardinality(keptIdx)

C2_Witness ==
    /\ pc = "init"
    /\ o.maxDistinct = 2
    /\ Cardinality(keptIdx) > 2
    /\ Len(catalog) > Cardinality(keptIdx)
    /\ Len(possibleMoves) = 2

\* C3 as stated: whenever onlyLeg is set, the result before truncation is
\* exactly the leg moves of the catalog in catalog order, whatever onlyArm
\* and seqSize are (the arm-only step being an else-if).
C3_AsStated ==
    (pc = "init" /\ o.onlyLeg) =>
        /\ filterPass(catalog, o) = legMoves(catalog)
        /\ o.maxDistinct = 0 => possibleMoves = legMoves(catalog)

\* C3 amended: the limb flags are two independent ifs.  With onlyLeg set and
\* onlyArm not set, the result before truncation is exactly the leg moves
\* of the catalog in catalog order, for every seqSize; with both flags set
\* every move is dropped.
C3_OnlyLegKeepsLegMoves ==
    (pc = "init" /\ o.onlyLeg) =>
        LET expected == IF o.onlyArm THEN <<>> ELSE legMoves(catalog)
        IN  /\ filterPass(catalog, o) = expected
            /\ o.maxDistinct = 0 => possibleMoves = expected
            /\ o.maxDistinct > 0 =>
                   possibleMoves =
                       SubSeq(expected, 1,
                              IF Len(expected) > o.maxDistinct
                              THEN o.maxDistinct ELSE Len(expected))

C3_Witness ==
    /\ pc = "init"
    /\ o.onlyLeg /\ ~o.onlyArm /\ o.seqSize = 2
    /\ hasLeg(catalog) /\ hasArm(catalog)
    /\ possibleMoves = legMoves(catalog)

\* =================================================================
\* Properties of the generation loop (checked under Spec / FairSpec)
\* =================================================================
Last(q) == q[Len(q)]
Names(q) == [k \in 1 .. Len(q) |-> q[k].name]
Terminated == pc \in {"done", "panic"}

\* applyGlobalOptions has returned: possibleMoves is the working set
HasWorkingSet == pc # "filter" /\ panic # "slice bounds out of range"

\* the last nextMove call returned a move, which is now the last of moves
Selected ==
    /\ Len(moves) > 0
    /\ panic # "rand.Intn"
    /\ callOpts.previousMoves = SubSeq(moves, 1, Len(moves) - 1)

\* C4: a move selected by nextMove while isFront is true has front = true,
\* a move selected while isFront is false has back = true, for every
\* outcome of the random draws.
C4_SideEligible ==
    Selected =>
        /\ callOpts.isFront => Last(moves).front
        /\ ~callOpts.isFront => Last(moves).back

C4_Witness ==
    /\ Selected
    /\ ~callOpts.isFront
    /\ Last(moves).back /\ ~Last(moves).front
    /\ Len(possibleMoves) > 2

\* C5: with seqSize >= 4 and a working set with both arm and leg moves,
\* the last move of every complete sequence is a leg move.
C5_LastMoveIsLeg ==
    (/\ HasWorkingSet
     /\ o.seqSize >= 4
     /\ hasLeg(possibleMoves) /\ hasArm(possibleMoves)
     /\ Len(moves) = o.seqSize)
        => Last(moves).leg

C5_Witness ==
    /\ pc = "play"
    /\ o.seqSize >= 4
    /\ hasLeg(possibleMoves) /\ hasArm(possibleMoves)
    /\ Len(moves) = o.seqSize
    /\ Last(moves).leg
    /\ round = 2

\* C6: with the catalog [jab, direto], seqSize = 2 and no restriction,
\* every round that is printed, the first and every later one, is exactly
\* jab, direto (with the lead-side marker).
JabDiretoScenario ==
    /\ catalog = JabDireto
    /\ o.seqSize = 2 /\ o.maxDistinct = 0 /\ ~o.onlyArm /\ ~o.onlyLeg

C6_EveryRoundIsJabDireto ==
    JabDiretoScenario =>
        /\ Len(moves) >= 1 => moves[1] = jab
        /\ Len(moves) >= 2 => moves[2] = direto
        /\ panic # "rand.Intn"
        /\ (stdout > 0 /\ pc # "select") =>
               /\ s = [marker |-> "F:", names |-> <<"jab", "direto">>]
               /\ Names(moves) = s.names
               /\ stdout = round

C6_Witness ==
    /\ JabDiretoScenario
    /\ stdout = 2
    /\ pc = "delay"
    /\ Names(moves) = <<"jab", "direto">>

\* C7: when exactly one of onlyArm / onlyLeg is set, the working set is
\* pure, nextMove adds neither mustBeLegRule nor mustNotBeLegRule at any
\* position for any seqSize, and every generated move has the requested
\* limb type (onlyLeg with seqSize = 3 included).
RuleSet == {rules[k] : k \in 1 .. Len(rules)}

C7_PureSetNoLimbRule ==
    (HasWorkingSet /\ o.onlyArm # o.onlyLeg) =>
        /\ ~(hasLeg(possibleMoves) /\ hasArm(possibleMoves))
        /\ \A k \in 1 .. Len(possibleMoves) : possibleMoves[k].leg = o.onlyLeg
        /\ RuleSet \cap {"mustBeLegRule", "mustNotBeLegRule"} = {}
        /\ \A k \in 1 .. Len(moves) : moves[k].leg = o.onlyLeg

C7_Witness ==
    /\ o.onlyLeg /\ ~o.onlyArm /\ o.seqSize = 3
    /\ pc = "play"
    /\ Len(moves) = 3
    /\ \A k \in 1 .. 3 : moves[k].leg
    /\ Len(rules) = 2

\* the round main is in is complete: all seqSize moves selected, the line
\* printed, every clip played to completion
RoundComplete ==
    /\ Len(moves) = o.seqSize
    /\ s.names = Names(moves)
    /\ stdout = round
    /\ played = o.seqSize
    /\ speaker = ""

\* C8: cancellation never interrupts a round in flight: when close(finish)
\* happens inside a round, main looks at finish (and returns) only once
\* that round has selected all seqSize moves, printed its line and played
\* every clip.
C8_CancellationWaitsForRound ==
    /\ pc = "done" => (finish /\ RoundComplete)
    /\ (finish /\ pc \in {"delay", "blocked"}) => RoundComplete

C8_Witness ==
    /\ pc = "done"
    /\ closedIn = "round"
    /\ RoundComplete
    /\ o.seqSize >= 2

C10_PlaybackErrorAborts ==
    err # "nil" =>
        /\ pc = "panic" /\ panic = "playAudio"
        /\ played < Len(moves)
        /\ speaker = ""
        /\ stdout = round
        /\ ~ENABLED MainStep

C10_Witness ==
    /\ err # "nil"
    /\ pc = "panic"
    /\ played = 1
    /\ Len(moves) >= 3
    /\ round = 1

\* C11: a read error of the stdin listener does not abort the process: it
\* is logged and finish is still closed, exactly once, so main stops at its
\* next delay boundary exactly as for a successful read.
C11_ReadErrorStillCancels ==
    /\ logged => (lpc \in {"close", "exit"} /\ panic \in {"", "rand.Intn", "playAudio"})
    /\ lpc = "close" => (~finish /\ (Running => ENABLED ListenerClose))
    /\ lpc = "exit" <=> finish
    /\ finish => ~ENABLED ListenerClose
    /\ (finish /\ pc \in {"delay", "blocked"}) => ENABLED TakeFinish
    /\ pc = "done" => finish

C11_Witness ==
    /\ logged
    /\ finish
    /\ pc = "done"
    /\ closedIn = "round"
    /\ round = 2

\* C13: an empty working set is not rejected at startup; the failure
\* surfaces at the first nextMove call (rand.Intn over an empty allowed
\* subset), before any round is printed and before any clip is played.
C13_EmptySetFailsAtFirstSelection ==
    /\ panic = "slice bounds out of range" => o.maxDistinct < 0
    /\ (HasWorkingSet /\ possibleMoves = <<>>) =>
           /\ pc \in {"init", "loop", "select", "panic"}
           /\ pc = "panic" => panic \in {"speaker", "rand.Intn"}
           /\ pc = "select" => ENABLED NextMove
           /\ moves = <<>> /\ stdout = 0 /\ played = 0 /\ speaker = ""
           /\ round <= 1

C13_Witness ==
    /\ HasWorkingSet
    /\ possibleMoves = <<>>
    /\ catalog # <<>>
    /\ o.maxDistinct >= 0
    /\ panic = "rand.Intn"
    /\ round = 1 /\ stdout = 0

\* =================================================================
\* Properties of nextMove (checked under SelectSpec)
\* =================================================================
\* nextMove has been called
Called == rules # <<>>

\* the call returned a move, now the last of moves
Returned == Called /\ Selected

Mixed(ms) == hasLeg(ms) /\ hasArm(ms)

\* the call was for the last position of a sequence of 4 moves or more
LastOfLong == o.seqSize >= 4 /\ Len(callOpts.previousMoves) = o.seqSize - 1

\* C14: over a working set with both arm and leg moves and with
\* seqSize # 1, every move selected at a position other than the last one
\* of a sequence of 4 moves or more is an arm move; for seqSize 2 or 3 that
\* is every position, the last included.
C14_ArmMovesElsewhere ==
    (Called /\ Mixed(possibleMoves) /\ o.seqSize # 1 /\ ~LastOfLong) =>
        /\ rules = <<"probabilityRule", sideRule(callOpts), "mustNotBeLegRule">>
        /\ Returned => ~Last(moves).leg

C14_Witness ==
    /\ Returned
    /\ Mixed(possibleMoves)
    /\ o.seqSize = 3
    /\ Len(moves) = 3
    /\ ~Last(moves).leg

\* =================================================================
\* Further properties of the generation loop (checked under Spec)
\* =================================================================
Even(n) == n % 2 = 0
Marker(front) == IF front THEN "F:" ELSE "T:"

\* C15: the side flag starts at lead, is flipped after every selected move
\* and is never reset between rounds: the k-th selection of the run (k from
\* 0, across rounds) is made on the lead side iff k is even.  So with even
\* seqSize every round starts on the lead side, with odd seqSize the
\* starting side alternates, and the marker of a round is the side of the
\* round's first move.
C15_SideAlternatesAcrossRounds ==
    /\ isFront = Even(selections)
    /\ (selections > 0 /\ panic # "rand.Intn") =>
           callOpts.isFront = Even(selections - 1)
    /\ round >= 1 =>
           /\ selections = (round - 1) * o.seqSize + Len(moves)
           /\ s.marker = Marker(Even((round - 1) * o.seqSize))
           /\ s.marker = Marker(Even(selections - Len(moves)))
           /\ Even(o.seqSize) => s.marker = "F:"
           /\ ~Even(o.seqSize) => s.marker = Marker(~Even(round))

C15_Witness ==
    /\ o.seqSize = 3
    /\ round = 2
    /\ pc = "play"
    /\ s.marker = "T:"
    /\ selections = 6
    /\ isFront

\* C16: within a round the steps are ordered: all seqSize moves are
\* selected, then the line is printed, then the clips are played one at a
\* time in sequence order, a playAudio call starting only once the
\* previous clip's completion was received, and the select on finish and
\* the timer runs only after the last clip.
C16_RoundStepsInOrder ==
    /\ pc = "select" =>
           /\ Len(moves) <= o.seqSize
           /\ stdout = round - 1 /\ played = 0 /\ speaker = ""
    /\ pc \in {"play", "playing"} =>
           /\ Len(moves) = o.seqSize /\ s.names = Names(moves)
           /\ stdout = round
    /\ pc = "play" => (played <= Len(moves) /\ speaker = "")
    /\ pc = "playing" =>
           /\ played < Len(moves)
           /\ speaker = moves[played + 1].name
    /\ pc \in {"delay", "blocked", "done"} =>
           /\ Len(moves) = o.seqSize
           /\ stdout = round
           /\ played = Len(moves) /\ speaker = ""
    /\ speaker # "" => pc = "playing"

C16_Witness ==
    /\ pc = "playing"
    /\ o.seqSize = 3
    /\ played = 2
    /\ speaker = moves[3].name
    /\ moves[3].name # moves[2].name
    /\ round = 2

\* =================================================================
\* A further property of applyGlobalOptions (checked under FilterSpec)
\* =================================================================
\* C17: applyGlobalOptions truncates only when maxDistinct > 0: for every
\* maxDistinct <= 0, negative values included, it returns the complete
\* filtered pass, without truncation and without failing.
C17_NoTruncationUnlessPositive ==
    (pc # "filter" /\ o.maxDistinct <= 0) =>
        /\ pc = "init" /\ panic = ""
        /\ possibleMoves = filterPass(catalog, o)

\* =================================================================
\* Further properties of nextMove (checked under SelectSpec)
\* =================================================================
\* m may be used on the side front
OnSide(m, front) == IF front THEN m.front ELSE m.back

\* some draw of the probability rule lets m through
CanPassProbability(m) == \E p \in Draws : m.prob <= p

\* nextMove, called in this state, can return ws[i]
CanReturn(i) ==
    \E draws \in [1 .. Len(possibleMoves) -> Draws] :
        LET allowedMoves == nextMoveAllowed(possibleMoves, rulesOptions, draws)
        IN  \E k \in 1 .. Len(allowedMoves) : allowedMoves[k] = possibleMoves[i]

\* C18: with seqSize = 1 and a working set with both arm and leg moves,
\* nextMove adds no limb-position rule: the allowed subset is restricted by
\* the side rule and the probability rule only, so an arm move and a leg
\* move are both possible results.
C18_SingleMoveNoLimbRule ==
    (o.seqSize = 1 /\ Mixed(possibleMoves)) =>
        /\ Called => rules = <<"probabilityRule", sideRule(callOpts)>>
        /\ ~Called =>
               \A i \in 1 .. Len(possibleMoves) :
                   (OnSide(possibleMoves[i], isFront)
                        /\ CanPassProbability(possibleMoves[i]))
                       => CanReturn(i)
        /\ Returned => OnSide(Last(moves), callOpts.isFront)

C18_Witness ==
    /\ Returned
    /\ o.seqSize = 1
    /\ Mixed(possibleMoves)
    /\ Last(moves).leg
    /\ \E i \in 1 .. Len(possibleMoves) :
           ~possibleMoves[i].leg /\ OnSide(possibleMoves[i], callOpts.isFront)

\* C20: with the built-in catalog, maxDistinct = 0 or >= 2 and not both
\* onlyArm and onlyLeg, the allowed subset of every nextMove call is
\* non-empty whatever the draws are, so no selection fails.
C20_BuiltinSelectionNeverFails ==
    ( /\ catalog = BuiltinMoves
      /\ o.maxDistinct = 0 \/ o.maxDistinct >= 2
      /\ ~(o.onlyArm /\ o.onlyLeg)
      /\ Called )
        => panic # "rand.Intn"

C20_Witness ==
    /\ Returned
    /\ catalog = BuiltinMoves
    /\ o.maxDistinct = 4
    /\ ~o.onlyArm /\ ~o.onlyLeg
    /\ o.seqSize = 4
    /\ Len(callOpts.previousMoves) = 3
    /\ ~callOpts.isFront
    /\ Last(moves) = chuta

\* =================================================================
\* A property of the level-based variant (checked under LevelSpec)
\* =================================================================
\* the first n moves of ms, all of ms when it has fewer
FirstMoves(ms, n) == SubSeq(ms, 1, IF n < Len(ms) THEN n ELSE Len(ms))

\* C19: level = 0 keeps every catalog move and level = k > 0 keeps
\* exactly the first k+1 moves of the catalog in catalog order, up to the
\* whole catalog.
C19_LevelKeepsFirstMoves ==
    [][ (pc = "level" /\ level >= 0) =>
            /\ pc' = "loop"
            /\ possibleMoves' = IF level = 0 THEN catalog
                                ELSE FirstMoves(catalog, level + 1) ]_vars

\* =================================================================
\* Reproducibility of the rounds (checked under DetSpec)
\* =================================================================
\* The run as the configuration and the stream alone determine it: the
\* state of the generation after n selections in a row, nothing else
\* happening in between.
RefRun(n) ==
    LET R[k \in 0 .. n] ==
            IF k = 0
            THEN [cursor |-> 0, isFront |-> TRUE, moves |-> <<>>]
            ELSE LET prev == R[k - 1]
                     pm == IF Len(prev.moves) = o.seqSize
                           THEN <<>> ELSE prev.moves
                     ro == [previousMoves |-> pm, seqSize |-> o.seqSize,
                            isFront |-> prev.isFront]
                     allowedMoves ==
                         nextMoveAllowed(possibleMoves, ro,
                             seededDraws(possibleMoves, seed, prev.cursor))
                     at == prev.cursor + Len(possibleMoves)
                 IN  IF allowedMoves = <<>> THEN prev
                     ELSE [cursor |-> cursorAfter(possibleMoves, seed, prev.cursor),
                           isFront |-> ~prev.isFront,
                           moves |-> Append(pm,
                               allowedMoves[intnAt(seed, at, Len(allowedMoves)) + 1])]
    IN  R[n]

\* round r (from 1) of the run, and the side it starts on
RefRound(r) == RefRun(r * o.seqSize).moves
RefSide(r) == RefRun((r - 1) * o.seqSize).isFront

\* C12: for a fixed configuration and a fixed stream of random values the
\* rounds are the same in every run, move for move: whenever the listener
\* reads or closes, whatever the waits and the playback do, the round being
\* built, printed or played is the round the configuration and the stream
\* determine, as far as it has been built.
C12_RoundsFollowFromSeed ==
    (round >= 1 /\ panic # "rand.Intn") =>
        /\ moves = SubSeq(RefRound(round), 1, Len(moves))
        /\ s.names = Names(moves)
        /\ s.marker = Marker(RefSide(round))

C12_Witness ==
    /\ round = 2
    /\ RoundComplete
    /\ finish
    /\ closedIn = "round"
    /\ moves = RefRound(2)
    /\ moves # RefRound(1)

====
